---- MODULE Spec2Model ----
(***************************************************************************)
(* The income chart pipeline of FinanceFusion                              *)
(* (src/components/income/IncomeCard.tsx, IncomeChartContainer):           *)
(*   initialIncomes -> filterIncomesByTimePeriod -> groupIncomesBySource   *)
(*                                               -> calculateTotalIncomes  *)
(*                                               -> pie Tooltip percentage *)
(*                                                                         *)
(* Objects live in a heap (a sequence of objects, an address is an index), *)
(* arrays are sequences of addresses: the income records handed to the     *)
(* component sit at addresses 1..Len(initialIncomes), the bucket objects   *)
(* that groupIncomesBySource allocates come after them.                    *)
(*                                                                         *)
(* Time is counted in whole hours since an epoch, in local time without    *)
(* daylight-saving shifts: a day is HoursPerDay hours (the source divides  *)
(* milliseconds by 1000 * 60 * 60 * 24).  Amounts are integers, on which   *)
(* the additions of the source are exact.                                  *)
(***************************************************************************)
EXTENDS Integers, Sequences, FiniteSets, TLC

VARIABLES
    heap,               \* the objects: income records, then buckets
    initialIncomes,     \* prop initialIncomes: addresses of the records
    clock,              \* what new Date() returns
    mounted,            \* the component has rendered
    timePeriod,         \* useState("all")
    filteredIncomes,    \* useMemo: addresses of the kept records
    categorizedIncomes, \* useMemo: addresses of the buckets
    totalIncomes,       \* useMemo: the total
    tooltip,            \* what the pie Tooltip shows, or NoTooltip
    renderError         \* "none", or the error the last render threw

chartVars == <<heap, initialIncomes, clock, mounted, timePeriod, filteredIncomes,
               categorizedIncomes, totalIncomes, tooltip, renderError>>

\* ExpensesPage (src/app/expenses/page.tsx)
VARIABLES
    userId,             \* useState(null)
    expenses,           \* useState([])
    isLoading,          \* useState(true)
    error,              \* useState(null)
    activeTab,          \* useState("list")
    pc,                 \* where fetchData stands
    storedUserId,       \* localStorage.getItem("userId")
    fetchCalls,         \* the calls of getExpensesByUserId so far
    fetchArg,           \* the user id of the last call
    fetchResult         \* what the call resolved to, or NoResult

pageVars == <<userId, expenses, isLoading, error, activeTab, pc, storedUserId,
              fetchCalls, fetchArg, fetchResult>>

\* The currency amounts the income views display
\* (src/components/income/IncomeCard.tsx, lines 23-26, 212, 265, 336)
VARIABLES
    amount,             \* the value a view formats: income.amount, totalIncomes
                        \* or a bucket's totalAmount
    view,               \* the view that rendered last, or "none"
    displayed           \* the text that view put after the "$"

displayVars == <<amount, view, displayed>>

\* IncomeCard (src/components/income/IncomeCard.tsx, lines 11-63)
VARIABLES
    cardIncome,         \* the income prop: income.id
    isDeleting,         \* useState(false)
    cardPc,             \* where handleDelete stands, or "idle"
    deletions           \* the calls of onDelete so far: the id passed and
                        \* how the deletion the call started stands

cardVars == <<cardIncome, isDeleting, cardPc, deletions>>

\* IncomeForm (src/unnamed/part_000)
VARIABLES
    formUserId,         \* the userId prop
    defaultUserId,      \* defaultValues?.userId, or Null
    formError,          \* useState(null)
    isSubmitting,       \* form.formState.isSubmitting
    formPc,             \* where handleSubmit stands, or "idle"
    formData,           \* the data of the attempts so far, as handleSubmit got it
    payloads,           \* the payloads passed to onSubmit so far
    outcomes            \* how the calls of onSubmit ended so far

formVars == <<formUserId, defaultUserId, formError, isSubmitting, formPc,
              formData, payloads, outcomes>>

vars == <<chartVars, pageVars, displayVars, cardVars, formVars>>

\* what a step of one component leaves alone: the other components
outsideChart == <<pageVars, displayVars, cardVars, formVars>>
outsidePage == <<chartVars, displayVars, cardVars, formVars>>
outsideDisplay == <<chartVars, pageVars, cardVars, formVars>>
outsideCard == <<chartVars, pageVars, displayVars, formVars>>
outsideForm == <<chartVars, pageVars, displayVars, cardVars>>

-----------------------------------------------------------------------------
(* Bounds of the inputs *)

MaxLen == 3         \* records in an input that varies amounts and sources
MaxWinLen == 2      \* records in an input that varies dates
MaxAmount == 1      \* amounts are 0..MaxAmount
BaseDay == 400      \* the calendar day (since the epoch) of the clock

-----------------------------------------------------------------------------
(* Program constants *)

HoursPerDay == 24   \* 1000 * 60 * 60 * 24 ms
WeekDays == 7
MonthDays == 30
YearDays == 365

Periods == {"all", "year", "month", "week"}
BoundedPeriods == {"year", "month", "week"}

NoTooltip == [active |-> FALSE]

\* getTime() of an Invalid Date (new Date of a malformed value): NaN.  Every
\* valid instant of the model is >= 0.
NaN == -1

\* initialIncomes not passed: undefined.  It is told from every array of
\* record addresses by holding address 0, which is no object.
Undefined == <<0>>

-----------------------------------------------------------------------------
(* filterIncomesByTimePeriod *)

\* new Date(now.getFullYear(), now.getMonth(), now.getDate()): midnight of now
CurrentDate(n) == (n \div HoursPerDay) * HoursPerDay

\* currentDate.getTime() - incomeDate.getTime(), incomeDate = income.createdAt
DiffTime(income, currentDate) == currentDate - income.createdAt

\* incomeDate.getTime() is NaN: then diffTime and diffDays are NaN
TimeIsNaN(income) == income.createdAt = NaN

\* x <= y and x >= y of JavaScript, false when x is NaN
LeqNum(isNaN, x, y) == ~isNaN /\ x <= y
GeqNum(isNaN, x, y) == ~isNaN /\ x >= y

\* the callback of incomes.filter.  diffDays = diffTime / HoursPerDay is a
\* fraction; diffDays <= N is compared as diffTime <= N * HoursPerDay.
KeepIncome(income, currentDate, period) ==
    LET diffTime == DiffTime(income, currentDate)
        nan      == TimeIsNaN(income)
    IN  CASE period = "week"  -> /\ LeqNum(nan, diffTime, WeekDays * HoursPerDay)
                                 /\ GeqNum(nan, diffTime, 0)
          [] period = "month" -> /\ LeqNum(nan, diffTime, MonthDays * HoursPerDay)
                                 /\ GeqNum(nan, diffTime, 0)
          [] period = "year"  -> /\ LeqNum(nan, diffTime, YearDays * HoursPerDay)
                                 /\ GeqNum(nan, diffTime, 0)
          [] OTHER            -> TRUE

RECURSIVE FilterFrom(_, _, _, _, _)
FilterFrom(h, incomes, i, currentDate, period) ==
    IF i > Len(incomes) THEN <<>>
    ELSE LET rest == FilterFrom(h, incomes, i + 1, currentDate, period)
         IN  IF KeepIncome(h[incomes[i]], currentDate, period)
             THEN <<incomes[i]>> \o rest
             ELSE rest

RECURSIVE Reversed(_)
Reversed(s) == IF s = <<>> THEN <<>> ELSE Append(Reversed(Tail(s)), Head(s))

\* a filter that collects with unshift: the kept records come out reversed
FilterUnshift(h, incomes, n, period) ==
    Reversed(FilterFrom(h, incomes, 1, CurrentDate(n), period))

filterIncomesByTimePeriod(h, incomes, n, period) ==
    FilterFrom(h, incomes, 1, CurrentDate(n), period)

-----------------------------------------------------------------------------
(* groupIncomesBySource *)

\* a find whose test never matches
FindNever(h, acc, ref) == 0

\* acc.find((item) => item.source === income.source): the address of the
\* first bucket of acc with the record's source, 0 when there is none
FindExisting(h, acc, ref) ==
    LET hits == {k \in 1..Len(acc) : h[acc[k]].source = h[ref].source}
    IN  IF hits = {} THEN 0
        ELSE acc[CHOOSE k \in hits : \A j \in hits : k <= j]

\* = in place of +=
AccumulateOverwrite(h, existing, ref) ==
    [h EXCEPT ![existing].totalAmount = h[ref].amount]

\* the operands swapped: the record takes the bucket's total
AccumulateIntoRecord(h, existing, ref) ==
    [h EXCEPT ![ref].amount = @ + h[existing].totalAmount]

\* existing.totalAmount += income.amount
Accumulate(h, existing, ref) ==
    [h EXCEPT ![existing].totalAmount = @ + h[ref].amount]

\* the object literal { source: income.source, totalAmount: income.amount }
NewBucket(h, ref) ==
    [source |-> h[ref].source, totalAmount |-> h[ref].amount]

\* acc.unshift(bucket)
UnshiftBucket(acc, addr) == <<addr>> \o acc

\* acc.push(bucket)
PushBucket(acc, addr) == Append(acc, addr)

\* the reducer: st = [heap, acc]
GroupStep(st, ref) ==
    LET existing == FindExisting(st.heap, st.acc, ref)
    IN  IF existing # 0
        THEN [heap |-> Accumulate(st.heap, existing, ref), acc |-> st.acc]
        ELSE [heap |-> Append(st.heap, NewBucket(st.heap, ref)),
              acc  |-> PushBucket(st.acc, Len(st.heap) + 1)]

RECURSIVE ReduceFrom(_, _, _)
ReduceFrom(st, incomes, i) ==
    IF i > Len(incomes) THEN st
    ELSE ReduceFrom(GroupStep(st, incomes[i]), incomes, i + 1)

groupIncomesBySource(h, incomes) ==
    ReduceFrom([heap |-> h, acc |-> <<>>], incomes, 1)

-----------------------------------------------------------------------------
(* calculateTotalIncomes *)

RECURSIVE SumFrom(_, _, _, _)
SumFrom(h, incomes, i, sum) ==
    IF i > Len(incomes) THEN sum
    ELSE SumFrom(h, incomes, i + 1, sum + h[incomes[i]].amount)

calculateTotalIncomes(h, incomes) == SumFrom(h, incomes, 1, 0)

-----------------------------------------------------------------------------
(* The pie Tooltip's percentage: (totalAmount / totalIncomes) * 100, then   *)
(* toFixed(2).  A finite result is kept in hundredths of a percent, rounded *)
(* to the nearest; a division by zero gives NaN (0 / 0) or Infinity.        *)

Percentage(totalAmount, total) ==
    IF total = 0
    THEN IF totalAmount = 0 THEN [finite |-> FALSE, text |-> "NaN"]
         ELSE IF totalAmount > 0 THEN [finite |-> FALSE, text |-> "Infinity"]
         ELSE [finite |-> FALSE, text |-> "-Infinity"]
    ELSE [finite |-> TRUE,
          hundredths |-> (2 * totalAmount * 10000 + total) \div (2 * total)]

-----------------------------------------------------------------------------
(* Inputs *)

Sources == {"Salary", "salary", "Gift"}

At(daysAgo, hour) == (BaseDay - daysAgo) * HoursPerDay + hour

\* the instants a record can carry: tomorrow, today and both sides of each
\* window's edge, at midnight and in the morning
DayOffsets == {0, WeekDays, WeekDays + 1, MonthDays, MonthDays + 1,
               YearDays, YearDays + 1}
RecordInstants == {At(-1, 0)} \cup {At(d, hr) : d \in DayOffsets, hr \in {0, 10}}
FutureDate == At(-2, 0)

Clocks == {At(0, 0), At(0, 15)}

SeqsUpTo(S, n) == UNION {[1..k -> S] : k \in 0..n}

\* records that vary in the instant they carry: entered when they occurred
\* (date = createdAt), or entered in the past for a date still to come
WindowRecords ==
    {[amount |-> 1, source |-> "Salary", date |-> c, createdAt |-> c] :
        c \in RecordInstants}
    \cup
    {[amount |-> 1, source |-> "Salary", date |-> FutureDate, createdAt |-> c] :
        c \in {At(WeekDays, 0), At(WeekDays + 1, 0), At(YearDays + 1, 0)}}
    \cup
    \* a malformed date, with createdAt malformed too or well-formed
    {[amount |-> 1, source |-> "Salary", date |-> NaN, createdAt |-> c] :
        c \in {NaN, At(WeekDays, 0)}}

\* records that vary in amount and source, entered today at midnight, and
\* one record entered before the week began
AggRecords ==
    {[amount |-> a, source |-> s, date |-> At(0, 0), createdAt |-> At(0, 0)] :
        a \in 0..MaxAmount, s \in Sources}
    \cup
    {[amount |-> MaxAmount, source |-> "Gift",
      date |-> At(WeekDays + 1, 0), createdAt |-> At(WeekDays + 1, 0)]}

WithIds(recs) ==
    [i \in 1..Len(recs) |->
        [id |-> i, amount |-> recs[i].amount, source |-> recs[i].source,
         date |-> recs[i].date, createdAt |-> recs[i].createdAt]]

-----------------------------------------------------------------------------
(* The component *)

NumRecords == IF initialIncomes = Undefined THEN 0 ELSE Len(initialIncomes)

\* the array of the addresses of the records of the heap h
Addresses(h) == [i \in 1..Len(h) |-> i]

\* a prop without the default of the caller: undefined stays undefined
NoDefault(incomes) == incomes

\* initialIncomes ?? []
NullishIncomes(incomes) == IF incomes = Undefined THEN <<>> ELSE incomes

\* the state of the component before its first render
Unmounted ==
    /\ renderError = "none"
    /\ mounted = FALSE
    /\ timePeriod = "all"
    /\ filteredIncomes = <<>>
    /\ categorizedIncomes = <<>>
    /\ totalIncomes = 0
    /\ tooltip = NoTooltip

InitWindow ==
    /\ \E recs \in SeqsUpTo(WindowRecords, MaxWinLen) : heap = WithIds(recs)
    /\ initialIncomes = Addresses(heap)
    /\ clock \in Clocks
    /\ Unmounted

\* an array of records, or no initialIncomes at all
InitAgg ==
    /\ \/ /\ \E recs \in SeqsUpTo(AggRecords, MaxLen) : heap = WithIds(recs)
          /\ initialIncomes = Addresses(heap)
       \/ /\ heap = <<>>
          /\ initialIncomes = Undefined
    /\ clock = At(0, 15)
    /\ Unmounted

\* One render with the period p: the three useMemo bodies, in their order.
\* The buckets of the render before are garbage; the heap keeps the records
\* and takes the new buckets.
\* incomes.filter of undefined throws a TypeError and the render fails.
Render(p) ==
    LET records  == SubSeq(heap, 1, NumRecords)
        incomes  == NullishIncomes(initialIncomes)
        filtered == filterIncomesByTimePeriod(records, incomes, clock, p)
        grouped  == groupIncomesBySource(records, filtered)
    IN  IF incomes = Undefined
        THEN /\ renderError' = "TypeError"
             /\ UNCHANGED <<heap, filteredIncomes, categorizedIncomes, totalIncomes>>
        ELSE /\ renderError' = "none"
             /\ filteredIncomes' = filtered
             /\ categorizedIncomes' = grouped.acc
             /\ heap' = grouped.heap
             /\ totalIncomes' = calculateTotalIncomes(grouped.heap, filtered)

\* the first render
Mount ==
    /\ ~mounted
    /\ mounted' = TRUE
    /\ Render(timePeriod)
    /\ UNCHANGED <<initialIncomes, clock, timePeriod, tooltip>>
    /\ UNCHANGED outsideChart

\* <Select onValueChange={setTimePeriod}> and the render it causes
SetTimePeriod(p) ==
    /\ mounted
    /\ p # timePeriod
    /\ timePeriod' = p
    /\ Render(p)
    /\ tooltip' = NoTooltip
    /\ UNCHANGED <<initialIncomes, clock, mounted>>
    /\ UNCHANGED outsideChart

\* the pie Tooltip's content callback, active on the bucket at index i
HoverPie(i) ==
    /\ mounted
    /\ i \in 1..Len(categorizedIncomes)
    /\ LET entry == heap[categorizedIncomes[i]]
       IN  tooltip' = [active     |-> TRUE,
                       source     |-> entry.source,
                       amount     |-> entry.totalAmount,
                       percentage |-> Percentage(entry.totalAmount, totalIncomes)]
    /\ UNCHANGED <<heap, initialIncomes, clock, mounted, timePeriod,
                   filteredIncomes, categorizedIncomes, totalIncomes, renderError>>
    /\ UNCHANGED outsideChart

Next ==
    \/ Mount
    \/ \E p \in Periods : SetTimePeriod(p)
    \/ \E i \in 1..MaxLen : HoverPie(i)

-----------------------------------------------------------------------------
(* ExpensesPage: the effect's fetchData, one step for each state update,    *)
(* and the gates of the render.                                             *)

MaxFetched == 3     \* expenses in a fetched list

Null == "null"
NoResult == <<0>>
UserIds == {"u1", "u2"}
StoredIds == {Null, ""} \cup UserIds
ExpenseLists == SeqsUpTo({1, 2}, MaxFetched)

NotFoundMessage == "User ID not found. Please log in again."
FailedMessage == "Failed to load expenses. Please try again."

\* a string or null in a condition
Truthy(x) == x # Null /\ x # ""

\* the render reaches the list / chart: neither if (isLoading) nor
\* if (error || !userId) returned before
CoreRendered == ~isLoading /\ ~(Truthy(error) \/ ~Truthy(userId))

\* the state useState gives the page, before the effect has run
PageMounted ==
    /\ userId = Null
    /\ expenses = <<>>
    /\ isLoading = TRUE
    /\ error = Null
    /\ activeTab = "list"
    /\ pc = "effect"
    /\ fetchCalls = 0
    /\ fetchArg = Null
    /\ fetchResult = NoResult

InitPage ==
    /\ PageMounted
    /\ storedUserId \in StoredIds

\* setIsLoading(true)
Line21 ==
    /\ pc = "effect"
    /\ isLoading' = TRUE
    /\ pc' = "22"
    /\ UNCHANGED <<userId, expenses, error, activeTab, storedUserId, fetchCalls,
                   fetchArg, fetchResult>>
    /\ UNCHANGED outsidePage

\* setError(null)
Line22 ==
    /\ pc = "22"
    /\ error' = Null
    /\ pc' = "24"
    /\ UNCHANGED <<userId, expenses, isLoading, activeTab, storedUserId,
                   fetchCalls, fetchArg, fetchResult>>
    /\ UNCHANGED outsidePage

\* a guard that takes every stored value for a user id
AlwaysStored(stored) == TRUE

\* the negation of if (!storedUserId)
HasStoredId(stored) == Truthy(stored)

\* const storedUserId = localStorage.getItem("userId"); if (!storedUserId)
Line24 ==
    /\ pc = "24"
    /\ pc' = IF HasStoredId(storedUserId) THEN "31" ELSE "26"
    /\ UNCHANGED <<userId, expenses, isLoading, error, activeTab, storedUserId,
                   fetchCalls, fetchArg, fetchResult>>
    /\ UNCHANGED outsidePage

\* setIsLoading(false)
Line26 ==
    /\ pc = "26"
    /\ isLoading' = FALSE
    /\ pc' = "27"
    /\ UNCHANGED <<userId, expenses, error, activeTab, storedUserId, fetchCalls,
                   fetchArg, fetchResult>>
    /\ UNCHANGED outsidePage

\* setError("User ID not found. Please log in again."); return
Line27 ==
    /\ pc = "27"
    /\ error' = NotFoundMessage
    /\ pc' = "finally"
    /\ UNCHANGED <<userId, expenses, isLoading, activeTab, storedUserId,
                   fetchCalls, fetchArg, fetchResult>>
    /\ UNCHANGED outsidePage

\* setUserId(storedUserId)
Line31 ==
    /\ pc = "31"
    /\ userId' = storedUserId
    /\ pc' = "32"
    /\ UNCHANGED <<expenses, isLoading, error, activeTab, storedUserId,
                   fetchCalls, fetchArg, fetchResult>>
    /\ UNCHANGED outsidePage

\* getExpensesByUserId(storedUserId) is called; fetchData awaits it
Line32 ==
    /\ pc = "32"
    /\ fetchCalls' = fetchCalls + 1
    /\ fetchArg' = storedUserId
    /\ pc' = "await"
    /\ UNCHANGED <<userId, expenses, isLoading, error, activeTab, storedUserId,
                   fetchResult>>
    /\ UNCHANGED outsidePage

\* the call resolves to fetched: setExpenses(fetchedExpenses)
Resolve(fetched) ==
    /\ pc = "await"
    /\ fetchResult' = fetched
    /\ expenses' = fetched
    /\ pc' = "finally"
    /\ UNCHANGED <<userId, isLoading, error, activeTab, storedUserId, fetchCalls,
                   fetchArg>>
    /\ UNCHANGED outsidePage

\* the call rejects: catch, setError("Failed to load expenses. ...")
Reject ==
    /\ pc = "await"
    /\ error' = FailedMessage
    /\ pc' = "finally"
    /\ UNCHANGED <<userId, expenses, isLoading, activeTab, storedUserId,
                   fetchCalls, fetchArg, fetchResult>>
    /\ UNCHANGED outsidePage

\* a finally block that leaves isLoading as it is
FinallyNothing == isLoading

\* the value the finally block gives isLoading: setIsLoading(false)
FinallyIsLoading == FALSE

Finally ==
    /\ pc = "finally"
    /\ isLoading' = FinallyIsLoading
    /\ pc' = "done"
    /\ UNCHANGED <<userId, expenses, error, activeTab, storedUserId, fetchCalls,
                   fetchArg, fetchResult>>
    /\ UNCHANGED outsidePage

\* onClick={() => setActiveTab(t)} of a TabsTrigger, which the core renders
SetActiveTab(t) ==
    /\ CoreRendered
    /\ t # activeTab
    /\ activeTab' = t
    /\ UNCHANGED <<userId, expenses, isLoading, error, pc, storedUserId,
                   fetchCalls, fetchArg, fetchResult>>
    /\ UNCHANGED outsidePage

FetchData ==
    \/ Line21
    \/ Line22
    \/ Line24
    \/ Line26
    \/ Line27
    \/ Line31
    \/ Line32
    \/ \E fetched \in ExpenseLists : Resolve(fetched)
    \/ Reject
    \/ Finally

PageNext ==
    \/ FetchData
    \/ \E t \in {"list", "chart"} : SetActiveTab(t)

-----------------------------------------------------------------------------
(* The displayed amounts. An amount is a double; the model takes the        *)
(* multiples of 1/16, which doubles hold exactly and which fall below, on   *)
(* and above the middle between two hundredths, and the double 1e21, from   *)
(* which on Number.prototype.toFixed answers in exponent notation. The      *)
(* card also renders an amount that is not a number, as it is.              *)

MaxSixteenths == 24     \* the largest |amount| of the model, in sixteenths

Sixteenth == 16         \* the amounts of the model are k / 16
FractionDigits == 2     \* toFixed(2)
E21Exponent == 21       \* toFixed: if x >= 10^21, the result is ToString(x)

\* a text: sign, digits before the point, the digits after it, and the
\* exponent of an exponent notation (0: none); error: what the render threw
Text(neg, whole, frac, exponent) ==
    [error |-> "none", neg |-> neg, whole |-> whole, frac |-> frac,
     exponent |-> exponent]

NoText == Text(FALSE, 0, <<>>, 0)

Thrown == [NoText EXCEPT !.error = "TypeError"]

Abs(k) == IF k < 0 THEN -k ELSE k

\* the number k / 16
Num(k) == [type |-> "number", sixteenths |-> k, e21 |-> FALSE]

\* the number 1e21
NumE21 == [type |-> "number", sixteenths |-> 0, e21 |-> TRUE]

\* a decimal string, such as "12.5", in the place of a number
Str(k, text) == [type |-> "string", sixteenths |-> k, e21 |-> FALSE, text |-> text]

\* toFixed: the integer n for which n / 100 - x is as close to zero as
\* possible, the larger n if there are two; here x = x16 / 16 >= 0
Hundredths(x16) == (2 * 100 * x16 + Sixteenth) \div (2 * Sixteenth)

\* Number.prototype.toFixed(2) of a number
toFixed(a) ==
    IF a.e21
    THEN Text(FALSE, 1, <<>>, E21Exponent)
    ELSE LET n == Hundredths(Abs(a.sixteenths))
         IN  Text(a.sixteenths < 0, n \div 100, <<(n \div 10) % 10, n % 10>>, 0)

\* value.toFixed(2) of any value: a string has no toFixed
CallToFixed(a) ==
    IF a.type = "number" THEN toFixed(a) ELSE Thrown

\* typeof income.amount === "number" ? income.amount.toFixed(2) : income.amount
formattedAmount(a) ==
    IF a.type = "number" THEN toFixed(a) ELSE a.text

Amounts ==
    {Num(k) : k \in -MaxSixteenths..MaxSixteenths}
        \cup {NumE21}
        \cup {Str(200, Text(FALSE, 12, <<5>>, 0))}

Views == {"card", "total", "tooltip"}

NothingDisplayed ==
    /\ view = "none"
    /\ displayed = NoText

InitDisplay ==
    /\ amount \in Amounts
    /\ NothingDisplayed

\* <p>${formattedAmount}</p>
RenderCard ==
    /\ view' = "card"
    /\ displayed' = formattedAmount(amount)
    /\ UNCHANGED amount
    /\ UNCHANGED outsideDisplay

\* <span>Total: ${totalIncomes.toFixed(2)}</span>
RenderTotal ==
    /\ view' = "total"
    /\ displayed' = CallToFixed(amount)
    /\ UNCHANGED amount
    /\ UNCHANGED outsideDisplay

\* ${payload[0].payload.totalAmount.toFixed(2)}
RenderTooltip ==
    /\ view' = "tooltip"
    /\ displayed' = CallToFixed(amount)
    /\ UNCHANGED amount
    /\ UNCHANGED outsideDisplay

DisplayNext ==
    \/ RenderCard
    \/ RenderTotal
    \/ RenderTooltip

-----------------------------------------------------------------------------
(* IncomeCard: the Delete button and handleDelete. The handler has no       *)
(* await: it runs from its first line to its last before any other event,   *)
(* and the deletion that onDelete started in the parent settles later.      *)

MaxClicks == 4      \* clicks on Delete

IncomeIds == {"i1", "i2"}

\* what a call of onDelete can do before it returns: start a deletion that
\* settles later, delete at once, or throw
CallOutcomes == {"pending", "deleted", "threw"}

\* how a pending deletion settles
SettleOutcomes == {"deleted", "failed"}

\* the parent drops the card of a deleted income
CardShown == \A i \in 1..Len(deletions) : deletions[i].status # "deleted"

CardMounted ==
    /\ isDeleting = FALSE
    /\ cardPc = "idle"
    /\ deletions = <<>>

InitCard ==
    /\ cardIncome \in IncomeIds
    /\ CardMounted

\* a click on <Button onClick={handleDelete} disabled={isDeleting}>:
\* setIsDeleting(true)
ClickDelete ==
    /\ cardPc = "idle"
    /\ CardShown
    /\ ~isDeleting
    /\ Len(deletions) < MaxClicks
    /\ isDeleting' = TRUE
    /\ cardPc' = "17"
    /\ UNCHANGED <<cardIncome, deletions>>
    /\ UNCHANGED outsideCard

\* onDelete(income.id); the handler does not wait for what it started
Line17(outcome) ==
    /\ cardPc = "17"
    /\ deletions' = Append(deletions, [id |-> cardIncome, status |-> outcome])
    /\ cardPc' = "19"
    /\ UNCHANGED <<cardIncome, isDeleting>>
    /\ UNCHANGED outsideCard

\* finally: setIsDeleting(false)
Line19 ==
    /\ cardPc = "19"
    /\ isDeleting' = FALSE
    /\ cardPc' = "idle"
    /\ UNCHANGED <<cardIncome, deletions>>
    /\ UNCHANGED outsideCard

\* a deletion that onDelete started settles, in a later task
DeletionSettles(i, outcome) ==
    /\ cardPc = "idle"
    /\ i \in 1..Len(deletions)
    /\ deletions[i].status = "pending"
    /\ deletions' = [deletions EXCEPT ![i].status = outcome]
    /\ UNCHANGED <<cardIncome, isDeleting, cardPc>>
    /\ UNCHANGED outsideCard

CardNext ==
    \/ ClickDelete
    \/ \E outcome \in CallOutcomes : Line17(outcome)
    \/ Line19
    \/ \E i \in 1..MaxClicks, outcome \in SettleOutcomes : DeletionSettles(i, outcome)

-----------------------------------------------------------------------------
(* IncomeForm: a submit that passed validation runs handleSubmit; the Save  *)
(* button is disabled while form.formState.isSubmitting.                    *)

MaxSubmits == 2     \* submit attempts

UnknownMessage == "An unknown error occurred"

\* what onSubmit can throw or reject with: an Error with its message, or a
\* value that is no Error
Caught == {[isError |-> TRUE, message |-> ""],
           [isError |-> TRUE, message |-> "Failed to save"],
           [isError |-> FALSE, message |-> "500"]}

\* userId: defaultValues?.userId ?? userId
preparedDefaults(defaultId, uid) == IF defaultId = Null THEN uid ELSE defaultId

\* the userId of the data: the form's default, or the value of the hidden
\* input, <input type="hidden" {...form.register("userId")} value={userId} />
DataUserIds == {preparedDefaults(defaultUserId, formUserId), formUserId}

\* a payload in which the userId of the data wins: { userId: userId, ...data }
PayloadDataWins(data, uid) == data

\* { ...data, userId: userId }
Payload(data, uid) == [data EXCEPT !.userId = uid]

\* err instanceof Error ? err.message : "An unknown error occurred"
ErrorText(err) == IF err.isError THEN err.message ELSE UnknownMessage

FormMounted ==
    /\ formError = Null
    /\ isSubmitting = FALSE
    /\ formPc = "idle"
    /\ formData = <<>>
    /\ payloads = <<>>
    /\ outcomes = <<>>

InitForm ==
    /\ formUserId \in UserIds
    /\ defaultUserId \in UserIds \cup {Null}
    /\ FormMounted

\* <form onSubmit={form.handleSubmit(handleSubmit)}>: the data is valid, and
\* handleSubmit(data) is called
Submit(data) ==
    /\ formPc = "idle"
    /\ ~isSubmitting
    /\ Len(formData) < MaxSubmits
    /\ isSubmitting' = TRUE
    /\ formData' = Append(formData, data)
    /\ formPc' = "56"
    /\ UNCHANGED <<formUserId, defaultUserId, formError, payloads, outcomes>>
    /\ UNCHANGED outsideForm

\* setError(null)
Line56 ==
    /\ formPc = "56"
    /\ formError' = Null
    /\ formPc' = "57"
    /\ UNCHANGED <<formUserId, defaultUserId, isSubmitting, formData, payloads,
                   outcomes>>
    /\ UNCHANGED outsideForm

\* await onSubmit({ ...data, userId: userId })
Line57 ==
    /\ formPc = "57"
    /\ payloads' = Append(payloads, Payload(formData[Len(formData)], formUserId))
    /\ formPc' = "await"
    /\ UNCHANGED <<formUserId, defaultUserId, formError, isSubmitting, formData,
                   outcomes>>
    /\ UNCHANGED outsideForm

\* onSubmit returned or its promise resolved
SubmitResolves ==
    /\ formPc = "await"
    /\ outcomes' = Append(outcomes, "resolved")
    /\ formPc' = "end"
    /\ UNCHANGED <<formUserId, defaultUserId, formError, isSubmitting, formData,
                   payloads>>
    /\ UNCHANGED outsideForm

\* onSubmit threw or its promise rejected: catch (err) setError(...)
SubmitRejects(err) ==
    /\ formPc = "await"
    /\ outcomes' = Append(outcomes, "rejected")
    /\ formError' = ErrorText(err)
    /\ formPc' = "end"
    /\ UNCHANGED <<formUserId, defaultUserId, isSubmitting, formData, payloads>>
    /\ UNCHANGED outsideForm

\* handleSubmit returned: the form is no longer submitting
SubmitEnds ==
    /\ formPc = "end"
    /\ isSubmitting' = FALSE
    /\ formPc' = "idle"
    /\ UNCHANGED <<formUserId, defaultUserId, formError, formData, payloads,
                   outcomes>>
    /\ UNCHANGED outsideForm

FormNext ==
    \/ \E amt \in 1..2, uid \in DataUserIds :
            Submit([amount |-> amt, source |-> "Salary", userId |-> uid])
    \/ Line56
    \/ Line57
    \/ SubmitResolves
    \/ \E err \in Caught : SubmitRejects(err)
    \/ SubmitEnds

-----------------------------------------------------------------------------
(* The specifications: one component runs, the others stay as constructed   *)

FormAtRest ==
    /\ formUserId = "u1"
    /\ defaultUserId = Null
    /\ FormMounted

CardAtRest ==
    /\ cardIncome = "i1"
    /\ CardMounted

DisplayAtRest ==
    /\ amount = Num(0)
    /\ NothingDisplayed

\* no chart on the page
ChartAtRest ==
    /\ heap = <<>>
    /\ initialIncomes = <<>>
    /\ clock = At(0, 0)
    /\ Unmounted

PageAtRest ==
    /\ PageMounted
    /\ storedUserId = Null

\* inputs that vary in their dates
WindowStart == InitWindow /\ PageAtRest /\ DisplayAtRest /\ CardAtRest /\ FormAtRest

SpecWindow == WindowStart /\ [][Next]_vars

\* inputs that vary in amounts and sources
AggStart == InitAgg /\ PageAtRest /\ DisplayAtRest /\ CardAtRest /\ FormAtRest

SpecAgg == AggStart /\ [][Next]_vars

\* the expenses page
PageStart == InitPage /\ ChartAtRest /\ DisplayAtRest /\ CardAtRest /\ FormAtRest

SpecPage == PageStart /\ [][PageNext]_vars

\* the amounts on display
DisplayStart == InitDisplay /\ ChartAtRest /\ PageAtRest /\ CardAtRest /\ FormAtRest

SpecDisplay == DisplayStart /\ [][DisplayNext]_vars

\* the income card
CardStart == InitCard /\ ChartAtRest /\ PageAtRest /\ DisplayAtRest /\ FormAtRest

SpecCard == CardStart /\ [][CardNext]_vars

\* the income form
FormStart ==
    InitForm /\ ChartAtRest /\ PageAtRest /\ DisplayAtRest /\ CardAtRest

SpecForm == FormStart /\ [][FormNext]_vars

\* the expenses page, when every step of fetchData that can be taken is
\* taken in the end and the call of getExpensesByUserId settles
SpecPageFair ==
    SpecPage /\ WF_vars(FetchData)

-----------------------------------------------------------------------------
(* What the claims speak of *)

RecordAddrs == 1..NumRecords

\* the record at address a is in the filter's output
Kept(a) == \E i \in 1..Len(filteredIncomes) : filteredIncomes[i] = a

DayOf(t) == t \div HoursPerDay

\* whole days from the calendar day of the record's date to the clock's
CalendarDiffDays(a) == DayOf(clock) - DayOf(heap[a].date)

WindowDays(p) ==
    CASE p = "week" -> WeekDays [] p = "month" -> MonthDays [] p = "year" -> YearDays

\* the record's date is well-formed
ValidDate(a) == heap[a].date # NaN

\* date and createdAt are the same instant: the record's day is the same
\* whichever field is read
OneInstant(a) == ValidDate(a) /\ heap[a].date = heap[a].createdAt

IsSubsequence(s, t) ==
    \E f \in [1..Len(s) -> 1..Len(t)] :
        /\ \A i \in 1..Len(s) : s[i] = t[f[i]]
        /\ \A i, j \in 1..Len(s) : i < j => f[i] < f[j]

RECURSIVE AmountSum(_)
AmountSum(s) == IF s = <<>> THEN 0 ELSE heap[Head(s)].amount + AmountSum(Tail(s))

RECURSIVE BucketSum(_)
BucketSum(s) == IF s = <<>> THEN 0 ELSE heap[Head(s)].totalAmount + BucketSum(Tail(s))

BucketLabel(i) == heap[categorizedIncomes[i]].source
BucketTotal(i) == heap[categorizedIncomes[i]].totalAmount
BucketIdx == 1..Len(categorizedIncomes)

\* the positions in the filter's output of the records with source src
Occurrences(src) ==
    {i \in 1..Len(filteredIncomes) : heap[filteredIncomes[i]].source = src}

FirstOccurrence(src) ==
    CHOOSE i \in Occurrences(src) : \A j \in Occurrences(src) : i <= j

\* the place of a label in alphabetical (code unit) order
AlphaRank(src) ==
    CASE src = "Gift" -> 1 [] src = "Salary" -> 2 [] src = "salary" -> 3

-----------------------------------------------------------------------------
(* C1: in a bounded window a record is kept iff 0 <= diffDays <= N, N = 7,  *)
(* 30, 365, diffDays the whole number of days from the record's calendar    *)
(* day to the current calendar day.  Stated for the records whose date and  *)
(* createdAt are one instant, so that it does not rest on which field is    *)
(* read.  The code drops a record of today that is later than midnight.     *)
C1_KeptIffWithinWindowDays ==
    (mounted /\ timePeriod \in BoundedPeriods) =>
        \A a \in RecordAddrs :
            OneInstant(a) =>
                (Kept(a) <=> (0 <= CalendarDiffDays(a)
                              /\ CalendarDiffDays(a) <= WindowDays(timePeriod)))

(* C2: the boundary is day-granular: in a bounded window two records of the *)
(* same calendar day get the same decision, and a record of the current     *)
(* calendar day is kept.  Stated for the records whose date and createdAt   *)
(* are one instant.                                                         *)
C2_DayGranular ==
    (mounted /\ timePeriod \in BoundedPeriods) =>
        /\ \A a, b \in RecordAddrs :
              (OneInstant(a) /\ OneInstant(b)
               /\ DayOf(heap[a].date) = DayOf(heap[b].date))
              => (Kept(a) <=> Kept(b))
        /\ \A a \in RecordAddrs :
              (OneInstant(a) /\ CalendarDiffDays(a) = 0) => Kept(a)

(* C3: a record whose date is in the future (negative diffDays) is dropped  *)
(* by "week", "month" and "year"; "all" keeps every input record.           *)
C3_FutureExcluded ==
    mounted =>
        /\ timePeriod \in BoundedPeriods =>
              \A a \in RecordAddrs :
                  (ValidDate(a) /\ CalendarDiffDays(a) < 0) => ~Kept(a)
        /\ timePeriod = "all" => filteredIncomes = NullishIncomes(initialIncomes)

(* C4: the filter compares the income's date field: two incomes with the    *)
(* same date get the same decision, whatever their createdAt.               *)
C4_DecidedByDate ==
    mounted =>
        \A a, b \in RecordAddrs :
            (ValidDate(a) /\ heap[a].date = heap[b].date) => (Kept(a) <=> Kept(b))

(* C5: the filter's output is an order-preserving subsequence of its input: *)
(* only elements of the input, none more often than there, in the same      *)
(* relative order.                                                          *)
C5_FilterIsSubsequence ==
    mounted => IsSubsequence(filteredIncomes, NullishIncomes(initialIncomes))

C5_Witness ==
    /\ mounted
    /\ timePeriod = "week"
    /\ Len(initialIncomes) = 3
    /\ Len(filteredIncomes) = 2
    /\ filteredIncomes[1] = initialIncomes[1]
    /\ filteredIncomes[2] = initialIncomes[3]

(* C6: the total is the sum of the amounts of the filtered records, and the *)
(* buckets' totalAmounts sum to that total.                                 *)
C6_TotalsAgree ==
    mounted =>
        /\ totalIncomes = AmountSum(filteredIncomes)
        /\ BucketSum(categorizedIncomes) = totalIncomes

C6_Witness ==
    /\ mounted
    /\ timePeriod = "week"
    /\ Len(filteredIncomes) < Len(initialIncomes)
    /\ \E i \in BucketIdx :
          /\ Cardinality(Occurrences(BucketLabel(i))) >= 2
          /\ \A k \in Occurrences(BucketLabel(i)) : heap[filteredIncomes[k]].amount > 0

(* C7: the bucket labels are exactly the distinct sources of the filtered   *)
(* records, compared verbatim, and no two buckets share a label.            *)
C7_LabelsAreTheSources ==
    mounted =>
        /\ {BucketLabel(i) : i \in BucketIdx}
             = {heap[filteredIncomes[k]].source : k \in 1..Len(filteredIncomes)}
        /\ \A i, j \in BucketIdx : BucketLabel(i) = BucketLabel(j) => i = j

C7_Witness ==
    /\ mounted
    /\ Len(categorizedIncomes) = 2
    /\ Len(filteredIncomes) = 3
    /\ {BucketLabel(i) : i \in BucketIdx} = {"Salary", "salary"}

(* C8: the buckets are in the order of the first occurrence of their label  *)
(* in the input; that order need be neither alphabetical nor by magnitude.  *)
C8_FirstSeenOrder ==
    mounted =>
        \A i, j \in BucketIdx :
            i < j => FirstOccurrence(BucketLabel(i)) < FirstOccurrence(BucketLabel(j))

C8_Witness ==
    /\ mounted
    /\ Len(categorizedIncomes) >= 2
    /\ AlphaRank(BucketLabel(1)) > AlphaRank(BucketLabel(2))
    /\ BucketTotal(1) < BucketTotal(2)
    /\ Cardinality(Occurrences(BucketLabel(2))) >= 2

(* C9: filtering and aggregating never modify their input: every step keeps *)
(* the input array and every field of every input record as they were.      *)
C9_InputUntouched ==
    [][/\ initialIncomes' = initialIncomes
       /\ \A a \in RecordAddrs : heap'[a] = heap[a]]_vars

C9_Witness ==
    /\ mounted
    /\ timePeriod # "all"
    /\ \E i \in BucketIdx :
          /\ Cardinality(Occurrences(BucketLabel(i))) >= 2
          /\ BucketTotal(i) > MaxAmount

(* C10: the percentage the pie Tooltip shows for a bucket is finite, also   *)
(* when the filtered records sum to 0.                                      *)
C10_PercentageFinite ==
    tooltip.active => tooltip.percentage.finite

-----------------------------------------------------------------------------
RECURSIVE OnlyValid(_)
\* the addresses of s whose record has a well-formed date, in order
OnlyValid(s) ==
    IF s = <<>> THEN <<>>
    ELSE IF ValidDate(Head(s)) THEN <<Head(s)>> \o OnlyValid(Tail(s))
    ELSE OnlyValid(Tail(s))

(* C11: a record whose date is malformed is dropped by "week", "month" and  *)
(* "year" and kept by "all", and the other records are filtered as if it    *)
(* were absent.  The code decides by createdAt: a record with a malformed   *)
(* date and a createdAt within the window is kept.                          *)
C11_MalformedDateFailsClosed ==
    mounted =>
        /\ \A a \in RecordAddrs :
              ~ValidDate(a) => (Kept(a) <=> timePeriod = "all")
        /\ OnlyValid(filteredIncomes)
             = filterIncomesByTimePeriod(heap, OnlyValid(initialIncomes), clock,
                                         timePeriod)

(* C12: empty or absent input is no error: when initialIncomes is undefined *)
(* or empty, or the filter keeps no record, the render throws nothing, the  *)
(* total is 0 and the buckets are the empty sequence.                       *)
C12_EmptyInputIsNoError ==
    (mounted /\ (\/ initialIncomes = Undefined
                 \/ initialIncomes = <<>>
                 \/ filteredIncomes = <<>>)) =>
        /\ renderError = "none"
        /\ totalIncomes = 0
        /\ categorizedIncomes = <<>>

C12_Witness ==
    /\ mounted
    /\ initialIncomes = Undefined
    /\ timePeriod = "week"
    /\ renderError = "none"

-----------------------------------------------------------------------------
(* ExpensesPage                                                             *)

\* getExpensesByUserId was called and resolved
FetchSucceeded == fetchCalls > 0 /\ fetchResult # NoResult

\* fetchData is past its try block and no list was fetched: the stored id
\* was missing, or the call rejected
FetchFailed == pc \in {"finally", "done"} /\ fetchResult = NoResult

\* C13: the list / chart is rendered only when isLoading is false, error is
\* null, userId is set and the fetch for that userId resolved; with no stored
\* id getExpensesByUserId is never called; with no stored id or a rejected
\* fetch, error is a message and expenses is still the empty array.
C13_CoreOnlyAfterFetch ==
    /\ CoreRendered =>
            /\ isLoading = FALSE
            /\ error = Null
            /\ userId # Null
            /\ FetchSucceeded
            /\ fetchArg = userId
            /\ expenses = fetchResult
    /\ storedUserId \in {Null, ""} => fetchCalls = 0
    /\ FetchFailed => (error # Null /\ expenses = <<>>)

C13_Witness ==
    /\ CoreRendered
    /\ activeTab = "chart"
    /\ userId = "u2"
    /\ expenses = <<1, 2>>

\* the page shows the error message
ErrorShown == error # Null \/ userId = Null

\* the page shows the list of the fetched expenses
Ready ==
    /\ error = Null
    /\ userId # Null
    /\ FetchSucceeded
    /\ expenses = fetchResult

\* C15: the fetch is started once; isLoading becomes false in the end on
\* every path and, once false, stays false; and whenever it is false the page
\* is in exactly one of the error state and the ready state.
C15_LoadingEnds ==
    /\ [](fetchCalls <= 1)
    /\ <>(pc # "effect")
    /\ <>[](isLoading = FALSE)
    /\ [][isLoading = FALSE => isLoading' = FALSE]_vars
    /\ [](isLoading = FALSE => (ErrorShown /\ ~Ready) \/ (Ready /\ ~ErrorShown))

C15_Witness ==
    /\ pc = "done"
    /\ isLoading = FALSE
    /\ error = FailedMessage
    /\ userId = "u1"
    /\ fetchCalls = 1

-----------------------------------------------------------------------------
(* The displayed amounts                                                    *)

\* the hundredths a text with two digits after the point stands for
TextHundredths(t) == 100 * t.whole + 10 * t.frac[1] + t.frac[2]

\* n hundredths are x16 sixteenths rounded to the nearest hundredth, a middle
\* rounded away from zero
RoundedHalfAway(n, x16) ==
    LET d == 100 * x16 - Sixteenth * n      \* (x - n / 100) in 1/1600
    IN  -(Sixteenth \div 2) <= d /\ d < Sixteenth \div 2

\* the text is the amount with exactly two digits after the point
TwoDigits(a, t) ==
    /\ t.error = "none"
    /\ t.exponent = 0
    /\ Len(t.frac) = FractionDigits
    /\ ~a.e21
    /\ t.neg => a.sixteenths < 0
    /\ RoundedHalfAway(TextHundredths(t), Abs(a.sixteenths))

\* C14: every amount a view displays (card amount, chart total, tooltip
\* bucket amount) has exactly 2 fractional digits and is the amount rounded
\* half away from zero, for every amount the record can carry.
C14_TwoFractionDigits ==
    view # "none" => TwoDigits(amount, displayed)

\* where the code does so: the amounts that are numbers below 1e21
TwoDigitsBelowE21 ==
    (view # "none" /\ amount.type = "number" /\ ~amount.e21)
        => TwoDigits(amount, displayed)

-----------------------------------------------------------------------------
(* IncomeCard                                                               *)

\* the deletions of this income that onDelete started and that have not
\* settled
PendingDeletes ==
    {i \in 1..Len(deletions) :
        deletions[i].id = cardIncome /\ deletions[i].status = "pending"}

\* C16: from a click on Delete until the deletion that onDelete started has
\* completed, isDeleting is true (the button disabled), so that no second
\* onDelete for the same income is called while the first is pending; after
\* the deletion completed or onDelete threw, isDeleting is false again.
C16_DisabledWhilePending ==
    /\ PendingDeletes # {} => isDeleting
    /\ Cardinality(PendingDeletes) <= 1
    /\ (cardPc = "idle" /\ PendingDeletes = {}) => ~isDeleting

-----------------------------------------------------------------------------
(* IncomeForm                                                               *)

\* C17: every payload passed to onSubmit has the userId of the userId prop,
\* whatever userId the data carried; the error is null from the start of a
\* submit attempt on, and after the attempt it is non-null exactly when that
\* attempt's onSubmit threw or rejected.
C17_PayloadAndError ==
    /\ \A i \in 1..Len(payloads) : payloads[i].userId = formUserId
    /\ formPc \in {"57", "await"} => formError = Null
    /\ (formPc \in {"end", "idle"} /\ outcomes # <<>>) =>
            (formError # Null <=> outcomes[Len(outcomes)] = "rejected")

\* a failed attempt, then a successful one whose data carried another userId
C17_Witness ==
    /\ formPc = "idle"
    /\ outcomes = <<"rejected", "resolved">>
    /\ formError = Null
    /\ formData[2].userId # formUserId
    /\ payloads[2].userId = formUserId

====
